---- MODULE Spec2Model ----
(***************************************************************************)
(* Authentication and access-control core of the roadmap service           *)
(* (src/app.py, src/config.py): signup, login, logout, refresh, the two    *)
(* decorators token_required / admin_required and the routes they wrap.    *)
(*                                                                         *)
(* Text is a sequence of one-character strings, so that strip(), lower()   *)
(* and len() are computed as the code computes them.  An ObjectId is       *)
(* [t |-> "oid", v |-> n]; its str() is [t |-> "str", v |-> n]; the text    *)
(* [t |-> "str", v |-> 0] is a path segment that is no ObjectId.           *)
(***************************************************************************)
EXTENDS Integers, Sequences, FiniteSets, TLC

VARIABLES
    db,               \* app.py:46   TRUE iff db is not None
    users,            \* db.users    documents in natural (insertion) order
    roadmaps,         \* db.roadmaps documents in natural (insertion) order
    issued,           \* every token signed so far; issued[j] has jti j
    token_blacklist,  \* app.py:49   set of revoked jti
    now,              \* the clock the tokens are stamped and checked with
    oids,             \* number of ObjectIds the store has generated
    req,              \* the last request served
    resp,             \* its response
    call,             \* the view function it entered and the arguments bound
    threads           \* the requests the threaded server is in the middle of

vars == <<db, users, roadmaps, issued, token_blacklist, now, oids, req, resp, call, threads>>

----------------------------------------------------------------------------
(* Bounds of the model *)

MaxUsers == 2
MaxTokens == 4
MaxRoadmaps == 1
MaxOids == 5
MaxPad == 6
MaxTail == 3
MaxThreads == 2

(* Program constants *)

JWT_ACCESS_TOKEN_EXPIRES == 3600
JWT_REFRESH_TOKEN_EXPIRES == 604800

----------------------------------------------------------------------------
(* Text *)

Whitespace == {" "}

UpperCase == {"A", "B", "C", "D", "E", "F", "G", "H", "I", "J", "K", "L", "M", "N", "O", "P", "Q", "R", "S", "T", "U", "V", "W", "X", "Y", "Z"}
LowerCaseChars == {"a", "b", "c", "d", "e", "f", "g", "h", "i", "j", "k", "l", "m", "n", "o", "p", "q", "r", "s", "t", "u", "v", "w", "x", "y", "z"}
Digits == {"0", "1", "2", "3", "4", "5", "6", "7", "8", "9"}
Specials == {"!", "@", "#", "$", "%", "^", "&", "*", "(", ")", ",", ".", "?", "\"", ":", "{", "}", "|", "<", ">"}

UpperLetters == <<"A", "B", "C", "D", "E", "F", "G", "H", "I", "J", "K", "L", "M", "N", "O", "P", "Q", "R", "S", "T", "U", "V", "W", "X", "Y", "Z">>
LowerLetters == <<"a", "b", "c", "d", "e", "f", "g", "h", "i", "j", "k", "l", "m", "n", "o", "p", "q", "r", "s", "t", "u", "v", "w", "x", "y", "z">>

LowerChar(c) ==
    IF c \in UpperCase
    THEN LowerLetters[CHOOSE i \in 1..Len(UpperLetters) : UpperLetters[i] = c]
    ELSE c

lower(s) == [i \in 1..Len(s) |-> LowerChar(s[i])]

RECURSIVE lstrip(_)
lstrip(s) == IF s # <<>> /\ Head(s) \in Whitespace THEN lstrip(Tail(s)) ELSE s

RECURSIVE rstrip(_)
rstrip(s) ==
    IF s # <<>> /\ s[Len(s)] \in Whitespace
    THEN rstrip(SubSeq(s, 1, Len(s) - 1))
    ELSE s

strip(s) == rstrip(lstrip(s))

Contains(s, chars) == \E i \in 1..Len(s) : s[i] \in chars

validate_password_digit_first(password) ==
    IF Len(password) < 8
    THEN [ok |-> FALSE, msg |-> "Password must be at least 8 characters long"]
    ELSE IF ~Contains(password, UpperCase)
    THEN [ok |-> FALSE, msg |-> "Password must contain at least one uppercase letter"]
    ELSE IF ~Contains(password, Digits)
    THEN [ok |-> FALSE, msg |-> "Password must contain at least one digit"]
    ELSE IF ~Contains(password, LowerCaseChars)
    THEN [ok |-> FALSE, msg |-> "Password must contain at least one lowercase letter"]
    ELSE IF ~Contains(password, Specials)
    THEN [ok |-> FALSE, msg |-> "Password must contain at least one special character"]
    ELSE [ok |-> TRUE, msg |-> "Password is valid"]

validate_password(password) ==
    IF Len(password) < 8
    THEN [ok |-> FALSE, msg |-> "Password must be at least 8 characters long"]
    ELSE IF ~Contains(password, UpperCase)
    THEN [ok |-> FALSE, msg |-> "Password must contain at least one uppercase letter"]
    ELSE IF ~Contains(password, LowerCaseChars)
    THEN [ok |-> FALSE, msg |-> "Password must contain at least one lowercase letter"]
    ELSE IF ~Contains(password, Digits)
    THEN [ok |-> FALSE, msg |-> "Password must contain at least one digit"]
    ELSE IF ~Contains(password, Specials)
    THEN [ok |-> FALSE, msg |-> "Password must contain at least one special character"]
    ELSE [ok |-> TRUE, msg |-> "Password is valid"]

(* bcrypt: the digest keeps the salt it was made with; gensalt() is fresh  *)
(* on every call, here the ordinal of the call.                            *)
hash_password(password, salt) == [pw |-> password, salt |-> salt]

check_password(password, hashed) == hash_password(password, hashed.salt) = hashed

----------------------------------------------------------------------------
(* ObjectId and its text *)

Oid(n) == [t |-> "oid", v |-> n]
NoStr == [t |-> "none", v |-> 0]
BadIdText == [t |-> "str", v |-> 0]

str(o) == [t |-> "str", v |-> o.v]

IsObjectIdText(s) == s.t = "str" /\ s.v # 0

ObjectId(s) == [t |-> "oid", v |-> s.v]

----------------------------------------------------------------------------
(* Requests and responses *)

Absent == <<"<absent>">>
NoRole == "<absent>"

EmptyBody == [username |-> Absent, email |-> Absent, password |-> Absent, role |-> NoRole]

NoArgs == [current_user_id |-> NoStr, roadmap_id |-> NoStr, node_id |-> NoStr]
NoCall == [handler |-> "none", args |-> NoArgs]

Request(op, tok, body) == [op |-> op, tok |-> tok, body |-> body, rid |-> NoStr, nid |-> NoStr]

Response(status, msg) == [status |-> status, msg |-> msg, access |-> 0, refresh |-> 0, data |-> <<>>]

Entered(handler, args) == [handler |-> handler, args |-> args]

Answer(r, rsp, c) ==
    /\ req' = r
    /\ resp' = rsp
    /\ call' = c

(* a request served from its first step to its last with no other request  *)
(* in between                                                              *)
Reply(r, rsp, c) == Answer(r, rsp, c) /\ UNCHANGED threads

(* app.run serves each request in a thread of its own; a thread that is    *)
(* between two steps of its view function keeps what it has read so far    *)
IdleThread ==
    [pc |-> "idle", body |-> EmptyBody, tok |-> 0, rid |-> NoStr, nid |-> NoStr, nodes |-> <<>>]

NoThreads == [t \in 1..MaxThreads |-> IdleThread]

----------------------------------------------------------------------------
(* The store *)

NoDoc == [_id |-> Oid(0)]

Min(S) == CHOOSE x \in S : \A y \in S : x <= y

(* find_one: the first, in natural order, of the documents the query matches *)
find_one(matching) == IF matching = <<>> THEN NoDoc ELSE Head(matching)

----------------------------------------------------------------------------
(* Tokens *)

TTL(type) == IF type = "access" THEN JWT_ACCESS_TOKEN_EXPIRES ELSE JWT_REFRESH_TOKEN_EXPIRES

(* the claims of a token signed at time iat; the jti is fresh: the ordinal *)
(* of the token among those signed                                         *)
NewToken(identity, role, type, jti, iat) ==
    [sub |-> identity, role |-> role, jti |-> jti, type |-> type,
     iat |-> iat, exp |-> iat + TTL(type)]

create_access_token(identity, role) ==
    NewToken(identity, role, "access", Len(issued) + 1, now)

TokenPair(user_id, role, signed, iat) ==
    << NewToken(str(user_id), role, "access", signed + 1, iat),
       NewToken(str(user_id), role, "refresh", signed + 2, iat) >>

generate_tokens(user_id, role) == TokenPair(user_id, role, Len(issued), now)

revoke_token_replacing(jti) == {jti}

revoke_token_with_next(jti) == token_blacklist \cup {jti, jti + 1}

revoke_token(jti) == token_blacklist \cup {jti}

is_token_revoked_never(jwt_payload) == FALSE

is_token_revoked(jwt_payload) == jwt_payload.jti \in token_blacklist

Pass == Response(0, "")

jwt_required_late(tok, refresh) ==
    IF tok = 0
    THEN Response(401, "Missing Authorization Header")
    ELSE IF issued[tok].exp < now
    THEN Response(401, "Token has expired")
    ELSE IF (issued[tok].type = "refresh") # refresh
    THEN Response(422, IF refresh THEN "Only refresh tokens are allowed"
                                  ELSE "Only non-refresh tokens are allowed")
    ELSE Pass

(* @jwt_required(): flask_jwt_extended verifies the header, the expiry and *)
(* the token type; refresh defaults to False, and no blocklist loader is   *)
(* registered on jwt_manager, so the library consults no blocklist.        *)
jwt_required(tok, refresh) ==
    IF tok = 0
    THEN Response(401, "Missing Authorization Header")
    ELSE IF issued[tok].exp <= now
    THEN Response(401, "Token has expired")
    ELSE IF (issued[tok].type = "refresh") # refresh
    THEN Response(422, IF refresh THEN "Only refresh tokens are allowed"
                                  ELSE "Only non-refresh tokens are allowed")
    ELSE Pass

token_required(tok) ==
    LET v == jwt_required(tok, FALSE)
    IN IF v # Pass THEN v
       ELSE IF is_token_revoked(issued[tok])
       THEN Response(401, "Token has been revoked")
       ELSE Pass

admin_required_any_role(tok) == token_required(tok)

admin_required(tok) ==
    LET v == jwt_required(tok, FALSE)
    IN IF v # Pass THEN v
       ELSE IF is_token_revoked(issued[tok])
       THEN Response(401, "Token has been revoked")
       ELSE IF issued[tok].role # "admin"
       THEN Response(403, "Admin access required")
       ELSE Pass

(* f(current_user, args, kwargs): Flask passes the path parameters as     *)
(* keyword arguments, the decorator passes the identity as the first       *)
(* positional argument.  Python raises TypeError when the first parameter  *)
(* of f is also given by keyword.                                          *)
TypeError == [handler |-> "TypeError", args |-> NoArgs]

BindCall(handler, params, first, kwargs) ==
    IF params[1] \in DOMAIN kwargs
    THEN TypeError
    ELSE Entered(handler,
            [p \in DOMAIN NoArgs |->
                IF p = params[1] THEN first
                ELSE IF p \in DOMAIN kwargs THEN kwargs[p]
                ELSE NoStr])

(* f(args, kwargs) of admin_required: the path parameters only *)
BindAdminCall(handler, kwargs) ==
    Entered(handler, [p \in DOMAIN NoArgs |-> IF p \in DOMAIN kwargs THEN kwargs[p] ELSE NoStr])

InternalError == Response(500, "Internal server error")

----------------------------------------------------------------------------
(* The requests the model sends *)

Ali == <<"a", "l", "i">>
AliPadded == <<" ", "a", "l", "i", " ">>
Bob == <<"b", "o", "b">>
ShortName == <<"a", "l">>

MailA == <<"a", "@", "x", ".", "y">>
MailAUpper == <<"A", "@", "x", ".", "y">>
MailB == <<"b", "@", "x", ".", "y">>
MailNoAt == <<"a", ".", "x", ".", "y">>
MailShort == <<"a", "@", "x">>

GoodPassword == <<"P", "a", "s", "s", "w", "0", "r", "d", "!">>
OtherPassword == <<"W", "r", "0", "n", "g", "p", "w", "d", "!">>
WeakPassword == <<"p", "a", "s", "s">>

SignupBody(u, e, p, r) == [username |-> u, email |-> e, password |-> p, role |-> r]

SignupBodies ==
    {SignupBody(u, e, GoodPassword, NoRole) : u \in {Ali, Bob}, e \in {MailA, MailB}}
    \cup {EmptyBody,
          SignupBody(Ali, MailA, GoodPassword, "admin"),
          SignupBody(Bob, MailB, GoodPassword, "user"),
          SignupBody(Bob, MailB, GoodPassword, "owner"),
          SignupBody(AliPadded, MailAUpper, GoodPassword, NoRole),
          SignupBody(Absent, MailA, GoodPassword, NoRole),
          SignupBody(Ali, MailA, Absent, NoRole),
          SignupBody(ShortName, MailA, GoodPassword, NoRole),
          SignupBody(Ali, MailNoAt, GoodPassword, NoRole),
          SignupBody(Ali, MailShort, GoodPassword, NoRole),
          SignupBody(Ali, MailA, WeakPassword, NoRole)}

LoginBodies ==
    {SignupBody(Absent, e, p, NoRole) :
        e \in {MailA, MailB}, p \in {GoodPassword, OtherPassword}}
    \cup {EmptyBody,
          SignupBody(Absent, MailAUpper, GoodPassword, NoRole),
          SignupBody(Absent, MailA, Absent, NoRole)}

(* what a client can put in the Authorization header: nothing (0) or a     *)
(* token the service signed                                                *)
Presented == 0..Len(issued)

----------------------------------------------------------------------------
(* Authentication routes *)

Frame == UNCHANGED <<db, users, roadmaps, issued, token_blacklist, now, oids>>

Fail(r, rsp, c) == Reply(r, rsp, c) /\ Frame

MissingField(body, fields) ==
    LET missing == {i \in 1..Len(fields) : body[fields[i]] = Absent}
    IN IF missing = {} THEN "" ELSE fields[Min(missing)]

PublicUser(user) ==
    [id |-> str(user._id), username |-> user.username, email |-> user.email, role |-> user.role]

UserDoc(n, username, email, hashed_password, role) ==
    [_id |-> Oid(n), username |-> username, email |-> email,
     password |-> hashed_password, role |-> role]

(* signup_rejection with the duplicate check ahead of the length, email    *)
(* and password checks                                                     *)
signup_rejection_duplicate_first(body) ==
    LET missing == MissingField(body, <<"username", "email", "password">>)
    IN
    IF ~db THEN Response(503, "Database connection not available")
    ELSE IF body = EmptyBody THEN Response(400, "No data provided")
    ELSE IF missing # "" THEN Response(400, missing \o " is required")
    ELSE
    LET username == strip(body.username)
        email == lower(strip(body.email))
        password == body.password
        valid == validate_password(password)
        existing_user == find_one(SelectSeq(users, LAMBDA u : u.username = username \/ u.email = email))
    IN
    IF existing_user # NoDoc
    THEN IF existing_user.username = username
         THEN Response(409, "Username already exists")
         ELSE Response(409, "Email already exists")
    ELSE IF Len(username) < 3
    THEN Response(400, "Username must be at least 3 characters long")
    ELSE IF Len(email) < 5 \/ ~Contains(email, {"@"})
    THEN Response(400, "Valid email is required")
    ELSE IF ~valid.ok THEN Response(400, valid.msg)
    ELSE Pass

(* signup up to and including the duplicate check: the response it returns *)
(* early, Pass if it goes on to insert                                     *)
signup_rejection(body) ==
    LET missing == MissingField(body, <<"username", "email", "password">>)
    IN
    IF ~db THEN Response(503, "Database connection not available")
    ELSE IF body = EmptyBody THEN Response(400, "No data provided")
    ELSE IF missing # "" THEN Response(400, missing \o " is required")
    ELSE
    LET username == strip(body.username)
        email == lower(strip(body.email))
        password == body.password
        valid == validate_password(password)
        existing_user == find_one(SelectSeq(users, LAMBDA u : u.username = username \/ u.email = email))
    IN
    IF Len(username) < 3
    THEN Response(400, "Username must be at least 3 characters long")
    ELSE IF Len(email) < 5 \/ ~Contains(email, {"@"})
    THEN Response(400, "Valid email is required")
    ELSE IF ~valid.ok THEN Response(400, valid.msg)
    ELSE IF existing_user # NoDoc
    THEN IF existing_user.username = username
         THEN Response(409, "Username already exists")
         ELSE Response(409, "Email already exists")
    ELSE Pass

(* signup from hash_password on: insert_one, generate_tokens, 201 *)
signup_insert(r, c, body) ==
    LET username == strip(body.username)
        email == lower(strip(body.email))
        password == body.password
        role == IF body.role = NoRole THEN "user" ELSE body.role
        user_doc == UserDoc(oids + 1, username, email, hash_password(password, Len(users) + 1), role)
        pair == generate_tokens(user_doc._id, user_doc.role)
    IN
        /\ Len(users) < MaxUsers
        /\ oids < MaxOids
        /\ Len(issued) + 2 <= MaxTokens
        /\ users' = Append(users, user_doc)
        /\ oids' = oids + 1
        /\ issued' = issued \o pair
        /\ Answer(r, [Response(201, "User created successfully") EXCEPT
                        !.access = pair[1].jti, !.refresh = pair[2].jti,
                        !.data = <<PublicUser(user_doc)>>], c)
        /\ UNCHANGED <<db, roadmaps, token_blacklist, now>>

signup(body) ==
    LET r == Request("signup", 0, body)
        c == Entered("signup", NoArgs)
    IN
    IF signup_rejection(body) # Pass
    THEN Fail(r, signup_rejection(body), c)
    ELSE signup_insert(r, c, body) /\ UNCHANGED threads

login_rejection_leaky(user, password) ==
    IF user = NoDoc THEN Response(404, "User not found")
    ELSE IF ~check_password(password, user.password)
    THEN Response(401, "Invalid email or password")
    ELSE Pass

(* the two ways login turns credentials down *)
login_rejection(user, password) ==
    IF user = NoDoc THEN Response(401, "Invalid email or password")
    ELSE IF ~check_password(password, user.password)
    THEN Response(401, "Invalid email or password")
    ELSE Pass

login(body) ==
    LET r == Request("login", 0, body)
        c == Entered("login", NoArgs)
    IN
    IF ~db THEN Fail(r, Response(503, "Database connection not available"), c)
    ELSE IF body = EmptyBody THEN Fail(r, Response(400, "No data provided"), c)
    ELSE IF body.email = Absent \/ body.password = Absent
    THEN Fail(r, Response(400, "Email and password are required"), c)
    ELSE
    LET email == lower(strip(body.email))
        password == body.password
        user == find_one(SelectSeq(users, LAMBDA u : u.email = email))
        pair == generate_tokens(user._id, user.role)
    IN
    IF login_rejection(user, password) # Pass
    THEN Fail(r, login_rejection(user, password), c)
    ELSE
        /\ Len(issued) + 2 <= MaxTokens
        /\ issued' = issued \o pair
        /\ Reply(r, [Response(200, "Login successful") EXCEPT
                        !.access = pair[1].jti, !.refresh = pair[2].jti,
                        !.data = <<PublicUser(user)>>], c)
        /\ UNCHANGED <<db, users, roadmaps, token_blacklist, now, oids>>

logout(tok) ==
    LET r == Request("logout", tok, EmptyBody)
        v == jwt_required(tok, FALSE)
    IN
    IF v # Pass THEN Fail(r, v, NoCall)
    ELSE
        /\ token_blacklist' = revoke_token(issued[tok].jti)
        /\ Reply(r, Response(200, "Successfully logged out"), Entered("logout", NoArgs))
        /\ UNCHANGED <<db, users, roadmaps, issued, now, oids>>

get_profile(tok) ==
    LET r == Request("get_profile", tok, EmptyBody)
        v == token_required(tok)
    IN
    IF v # Pass THEN Fail(r, v, NoCall)
    ELSE
    LET c == BindCall("get_profile", <<"current_user_id">>, issued[tok].sub, <<>>)
        current_user_id == c.args.current_user_id
    IN
    IF c = TypeError THEN Fail(r, InternalError, c)
    ELSE IF ~db THEN Fail(r, Response(503, "Database connection not available"), c)
    ELSE IF ~IsObjectIdText(current_user_id)
    THEN Fail(r, Response(500, "Failed to fetch profile: InvalidId"), c)
    ELSE
    LET user == find_one(SelectSeq(users, LAMBDA u : u._id = ObjectId(current_user_id)))
    IN
    IF user = NoDoc THEN Fail(r, Response(404, "User not found"), c)
    ELSE Fail(r, [Response(200, "") EXCEPT !.data = <<PublicUser(user)>>], c)

refreshed_role_stale(user, claims) == claims.role

(* additional_claims of the refreshed token *)
refreshed_role(user, claims) == user.role

refresh_token(tok) ==
    LET r == Request("refresh_token", tok, EmptyBody)
        v == jwt_required(tok, FALSE)
        c == Entered("refresh_token", NoArgs)
    IN
    IF v # Pass THEN Fail(r, v, NoCall)
    ELSE
    LET current_user == issued[tok].sub
        user == find_one(SelectSeq(users, LAMBDA u : u._id = ObjectId(current_user)))
        new_access_token == create_access_token(current_user, refreshed_role(user, issued[tok]))
    IN
    IF ~db THEN Fail(r, Response(503, "Database connection not available"), c)
    ELSE IF ~IsObjectIdText(current_user)
    THEN Fail(r, Response(500, "Token refresh failed: InvalidId"), c)
    ELSE IF user = NoDoc THEN Fail(r, Response(404, "User not found"), c)
    ELSE
        /\ Len(issued) < MaxTokens
        /\ issued' = Append(issued, new_access_token)
        /\ Reply(r, [Response(200, "Token refreshed successfully") EXCEPT
                        !.access = new_access_token.jti], c)
        /\ UNCHANGED <<db, users, roadmaps, token_blacklist, now, oids>>

StrippedUser_with_password(user) == [user EXCEPT !._id = str(user._id)]

StrippedUser(user) ==
    [_id |-> str(user._id), username |-> user.username, email |-> user.email, role |-> user.role]

get_all_users(tok) ==
    LET r == Request("get_all_users", tok, EmptyBody)
        v == admin_required(tok)
        c == BindAdminCall("get_all_users", <<>>)
    IN
    IF v # Pass THEN Fail(r, v, NoCall)
    ELSE IF ~db THEN Fail(r, Response(503, "Database connection not available"), c)
    ELSE Fail(r, [Response(200, "") EXCEPT
                    !.data = [i \in 1..Len(users) |-> StrippedUser(users[i])]], c)

----------------------------------------------------------------------------
(* Roadmap routes *)

NodeText(k) == [t |-> "str", v |-> k]

TopFields == <<"title", "description", "category", "difficulty_level", "nodes">>
NodeFields == <<"id", "title", "description", "position_x", "position_y">>

FirstMissing(fields, present) ==
    LET missing == {i \in 1..Len(fields) : fields[i] \notin present}
    IN IF missing = {} THEN "" ELSE fields[Min(missing)]

(* index of the first node that lacks a required field, 0 if none *)
BadNode(nodes) ==
    LET bad == {i \in 1..Len(nodes) : FirstMissing(NodeFields, nodes[i].present) # ""}
    IN IF bad = {} THEN 0 ELSE Min(bad)

NoRoadmapData == [present |-> {}, nodes |-> <<>>, is_public |-> "absent", created_by |-> NoStr]

Serialise(roadmap) ==
    [roadmap EXCEPT !._id = str(roadmap._id), !.created_by = str(roadmap.created_by)]


get_roadmaps_body_unfiltered(r, c) ==
    IF ~db THEN Fail(r, Response(503, "Database connection not available"), c)
    ELSE Fail(r, [Response(200, "") EXCEPT
                    !.data = [i \in 1..Len(roadmaps) |-> Serialise(roadmaps[i])]], c)

get_roadmaps_body(r, c) ==
    LET current_user_id == c.args.current_user_id
        claims == issued[r.tok]
        found == IF claims.role = "admin"
                 THEN roadmaps
                 ELSE SelectSeq(roadmaps, LAMBDA d : d.is_public = TRUE
                                                  \/ d.created_by = ObjectId(current_user_id))
    IN
    IF ~db THEN Fail(r, Response(503, "Database connection not available"), c)
    ELSE IF ~IsObjectIdText(current_user_id)
    THEN Fail(r, Response(500, "Failed to fetch roadmaps: InvalidId"), c)
    ELSE Fail(r, [Response(200, "") EXCEPT
                    !.data = [i \in 1..Len(found) |-> Serialise(found[i])]], c)

get_roadmaps(tok) ==
    LET r == Request("get_roadmaps", tok, EmptyBody)
        v == token_required(tok)
    IN
    IF v # Pass THEN Fail(r, v, NoCall)
    ELSE
    LET c == BindCall("get_roadmaps", <<"current_user_id">>, issued[tok].sub, <<>>)
    IN IF c = TypeError THEN Fail(r, InternalError, c) ELSE get_roadmaps_body(r, c)

set_created_by_from_body(current_user_id, data) ==
    IF data.created_by # NoStr THEN ObjectId(data.created_by) ELSE ObjectId(current_user_id)

(* data['created_by'] = ObjectId(current_user_id): whatever the body holds *)
set_created_by(current_user_id, data) == ObjectId(current_user_id)

create_roadmap_body(r, c) ==
    LET current_user_id == c.args.current_user_id
        data == r.body
        missing == FirstMissing(TopFields, data.present)
        bad == BadNode(data.nodes)
        doc == [_id |-> Oid(oids + 1),
                created_by |-> set_created_by(current_user_id, data),
                is_public |-> (data.is_public = "true"),
                nodes |-> [i \in 1..Len(data.nodes) |->
                              [id |-> data.nodes[i].id, completed |-> FALSE]]]
    IN
    IF ~db THEN Fail(r, Response(503, "Database connection not available"), c)
    ELSE IF data = NoRoadmapData THEN Fail(r, Response(400, "No data provided"), c)
    ELSE IF missing # "" THEN Fail(r, Response(400, missing \o " is required"), c)
    ELSE IF Len(data.nodes) = 0
    THEN Fail(r, Response(400, "Nodes must be a non-empty array"), c)
    ELSE IF bad # 0
    THEN Fail(r, Response(400, "Node missing required field: "
                               \o FirstMissing(NodeFields, data.nodes[bad].present)), c)
    ELSE IF ~IsObjectIdText(current_user_id)
    THEN Fail(r, Response(500, "Failed to create roadmap: InvalidId"), c)
    ELSE
        /\ Len(roadmaps) < MaxRoadmaps
        /\ oids < MaxOids
        /\ roadmaps' = Append(roadmaps, doc)
        /\ oids' = oids + 1
        /\ Reply(r, [Response(201, "Roadmap created successfully") EXCEPT
                        !.data = <<str(doc._id)>>], c)
        /\ UNCHANGED <<db, users, issued, token_blacklist, now>>

create_roadmap(tok, data) ==
    LET r == Request("create_roadmap", tok, data)
        v == token_required(tok)
    IN
    IF v # Pass THEN Fail(r, v, NoCall)
    ELSE
    LET c == BindCall("create_roadmap", <<"current_user_id">>, issued[tok].sub, <<>>)
    IN IF c = TypeError THEN Fail(r, InternalError, c) ELSE create_roadmap_body(r, c)

get_roadmap_body(r, c) ==
    LET roadmap_id == c.args.roadmap_id
        current_user_id == c.args.current_user_id
        claims == issued[r.tok]
        roadmap ==
            IF claims.role # "admin"
            THEN find_one(SelectSeq(roadmaps, LAMBDA d : d._id = ObjectId(roadmap_id)
                                 /\ (d.is_public = TRUE \/ d.created_by = ObjectId(current_user_id))))
            ELSE find_one(SelectSeq(roadmaps, LAMBDA d : d._id = ObjectId(roadmap_id)))
    IN
    IF ~db THEN Fail(r, Response(503, "Database connection not available"), c)
    ELSE IF ~IsObjectIdText(roadmap_id)
            \/ (claims.role # "admin" /\ ~IsObjectIdText(current_user_id))
    THEN Fail(r, Response(500, "Failed to fetch roadmap: InvalidId"), c)
    ELSE IF roadmap = NoDoc
    THEN Fail(r, Response(404, "Roadmap not found or access denied"), c)
    ELSE Fail(r, [Response(200, "") EXCEPT !.data = <<Serialise(roadmap)>>], c)

get_roadmap(tok, rid) ==
    LET r == [Request("get_roadmap", tok, EmptyBody) EXCEPT !.rid = rid]
        v == token_required(tok)
    IN
    IF v # Pass THEN Fail(r, v, NoCall)
    ELSE
    LET c == BindCall("get_roadmap", <<"roadmap_id", "current_user_id">>,
                      issued[tok].sub, [roadmap_id |-> rid])
    IN IF c = TypeError THEN Fail(r, InternalError, c) ELSE get_roadmap_body(r, c)

(* update_one with $set: the fields of data replace those of the document *)
SetFields(doc, data) ==
    [f \in DOMAIN doc |-> IF f \in DOMAIN data THEN data[f] ELSE doc[f]]

update_roadmap_body(r, c) ==
    LET roadmap_id == c.args.roadmap_id
        current_user_id == c.args.current_user_id
        claims == issued[r.tok]
        data == r.body
        roadmap == find_one(SelectSeq(roadmaps, LAMBDA d : d._id = ObjectId(roadmap_id)))
    IN
    IF ~db THEN Fail(r, Response(503, "Database connection not available"), c)
    ELSE IF DOMAIN data = {} THEN Fail(r, Response(400, "No data provided"), c)
    ELSE IF ~IsObjectIdText(roadmap_id)
    THEN Fail(r, Response(500, "Failed to update roadmap: InvalidId"), c)
    ELSE IF roadmap = NoDoc THEN Fail(r, Response(404, "Roadmap not found"), c)
    ELSE IF str(roadmap.created_by) # current_user_id /\ claims.role # "admin"
    THEN Fail(r, Response(403, "Access denied. Only owner or admin can update roadmap"), c)
    ELSE
        /\ roadmaps' = [i \in 1..Len(roadmaps) |->
                           IF roadmaps[i]._id = ObjectId(roadmap_id)
                           THEN SetFields(roadmaps[i], data)
                           ELSE roadmaps[i]]
        /\ Reply(r, Response(200, "Roadmap updated successfully"), c)
        /\ UNCHANGED <<db, users, issued, token_blacklist, now, oids>>

update_roadmap(tok, rid, data) ==
    LET r == [Request("update_roadmap", tok, data) EXCEPT !.rid = rid]
        v == token_required(tok)
    IN
    IF v # Pass THEN Fail(r, v, NoCall)
    ELSE
    LET c == BindCall("update_roadmap", <<"roadmap_id", "current_user_id">>,
                      issued[tok].sub, [roadmap_id |-> rid])
    IN IF c = TypeError THEN Fail(r, InternalError, c) ELSE update_roadmap_body(r, c)

delete_roadmap_body(r, c) ==
    LET roadmap_id == c.args.roadmap_id
        current_user_id == c.args.current_user_id
        claims == issued[r.tok]
        roadmap == find_one(SelectSeq(roadmaps, LAMBDA d : d._id = ObjectId(roadmap_id)))
    IN
    IF ~db THEN Fail(r, Response(503, "Database connection not available"), c)
    ELSE IF ~IsObjectIdText(roadmap_id)
    THEN Fail(r, Response(500, "Failed to delete roadmap: InvalidId"), c)
    ELSE IF roadmap = NoDoc THEN Fail(r, Response(404, "Roadmap not found"), c)
    ELSE IF str(roadmap.created_by) # current_user_id /\ claims.role # "admin"
    THEN Fail(r, Response(403, "Access denied. Only owner or admin can delete roadmap"), c)
    ELSE
        /\ roadmaps' = SelectSeq(roadmaps, LAMBDA d : d._id # ObjectId(roadmap_id))
        /\ Reply(r, Response(200, "Roadmap deleted successfully"), c)
        /\ UNCHANGED <<db, users, issued, token_blacklist, now, oids>>

delete_roadmap(tok, rid) ==
    LET r == [Request("delete_roadmap", tok, EmptyBody) EXCEPT !.rid = rid]
        v == token_required(tok)
    IN
    IF v # Pass THEN Fail(r, v, NoCall)
    ELSE
    LET c == BindCall("delete_roadmap", <<"roadmap_id", "current_user_id">>,
                      issued[tok].sub, [roadmap_id |-> rid])
    IN IF c = TypeError THEN Fail(r, InternalError, c) ELSE delete_roadmap_body(r, c)

(* the nodes with the first node whose str(id) is node_id negated *)
Toggled(nodes, node_id) ==
    LET hits == {i \in 1..Len(nodes) : NodeText(nodes[i].id) = node_id}
    IN IF hits = {} THEN nodes
       ELSE [nodes EXCEPT ![Min(hits)].completed = ~nodes[Min(hits)].completed]

toggle_node_completion_body(r, c) ==
    LET roadmap_id == c.args.roadmap_id
        node_id == c.args.node_id
        current_user_id == c.args.current_user_id
        claims == issued[r.tok]
        roadmap == find_one(SelectSeq(roadmaps, LAMBDA d : d._id = ObjectId(roadmap_id)))
        node_found == \E i \in 1..Len(roadmap.nodes) : NodeText(roadmap.nodes[i].id) = node_id
        nodes == Toggled(roadmap.nodes, node_id)
        updated_node == find_one(SelectSeq(nodes, LAMBDA n : NodeText(n.id) = node_id))
    IN
    IF ~db THEN Fail(r, Response(503, "Database connection not available"), c)
    ELSE IF ~IsObjectIdText(roadmap_id)
    THEN Fail(r, Response(500, "Failed to toggle node completion: InvalidId"), c)
    ELSE IF roadmap = NoDoc THEN Fail(r, Response(404, "Roadmap not found"), c)
    ELSE IF roadmap.is_public # TRUE /\ str(roadmap.created_by) # current_user_id
            /\ claims.role # "admin"
    THEN Fail(r, Response(403, "Access denied"), c)
    ELSE IF ~node_found THEN Fail(r, Response(404, "Node not found"), c)
    ELSE
        /\ roadmaps' = [i \in 1..Len(roadmaps) |->
                           IF roadmaps[i]._id = ObjectId(roadmap_id)
                           THEN [roadmaps[i] EXCEPT !.nodes = nodes]
                           ELSE roadmaps[i]]
        /\ Reply(r, [Response(200, "Node completion status updated") EXCEPT
                        !.data = <<updated_node>>], c)
        /\ UNCHANGED <<db, users, issued, token_blacklist, now, oids>>

toggle_node_completion(tok, rid, nid) ==
    LET r == [Request("toggle_node_completion", tok, EmptyBody) EXCEPT !.rid = rid, !.nid = nid]
        v == token_required(tok)
    IN
    IF v # Pass THEN Fail(r, v, NoCall)
    ELSE
    LET c == BindCall("toggle_node_completion", <<"roadmap_id", "node_id", "current_user_id">>,
                      issued[tok].sub, [roadmap_id |-> rid, node_id |-> nid])
    IN IF c = TypeError THEN Fail(r, InternalError, c) ELSE toggle_node_completion_body(r, c)

get_roadmap_progress_body(r, c) ==
    LET roadmap_id == c.args.roadmap_id
        current_user_id == c.args.current_user_id
        claims == issued[r.tok]
        roadmap == find_one(SelectSeq(roadmaps, LAMBDA d : d._id = ObjectId(roadmap_id)))
        nodes == roadmap.nodes
        progress_data ==
            [roadmap_id |-> str(roadmap._id),
             total_nodes |-> Len(nodes),
             completed_nodes |-> Cardinality({i \in 1..Len(nodes) : nodes[i].completed}),
             completed_nodes_list |-> SelectSeq(nodes, LAMBDA n : n.completed),
             pending_nodes_list |-> SelectSeq(nodes, LAMBDA n : ~n.completed)]
    IN
    IF ~db THEN Fail(r, Response(503, "Database connection not available"), c)
    ELSE IF ~IsObjectIdText(roadmap_id)
    THEN Fail(r, Response(500, "Failed to fetch progress: InvalidId"), c)
    ELSE IF roadmap = NoDoc THEN Fail(r, Response(404, "Roadmap not found"), c)
    ELSE IF roadmap.is_public # TRUE /\ str(roadmap.created_by) # current_user_id
            /\ claims.role # "admin"
    THEN Fail(r, Response(403, "Access denied"), c)
    ELSE Fail(r, [Response(200, "") EXCEPT !.data = <<progress_data>>], c)

get_roadmap_progress(tok, rid) ==
    LET r == [Request("get_roadmap_progress", tok, EmptyBody) EXCEPT !.rid = rid]
        v == token_required(tok)
    IN
    IF v # Pass THEN Fail(r, v, NoCall)
    ELSE
    LET c == BindCall("get_roadmap_progress", <<"roadmap_id", "current_user_id">>,
                      issued[tok].sub, [roadmap_id |-> rid])
    IN IF c = TypeError THEN Fail(r, InternalError, c) ELSE get_roadmap_progress_body(r, c)

----------------------------------------------------------------------------
(* Admin-only routes *)

get_all_roadmaps_admin(tok) ==
    LET r == Request("get_all_roadmaps_admin", tok, EmptyBody)
        v == admin_required(tok)
        c == BindAdminCall("get_all_roadmaps_admin", <<>>)
    IN
    IF v # Pass THEN Fail(r, v, NoCall)
    ELSE IF ~db THEN Fail(r, Response(503, "Database connection not available"), c)
    ELSE Fail(r, [Response(200, "") EXCEPT
                    !.data = [i \in 1..Len(roadmaps) |-> Serialise(roadmaps[i])]], c)

force_delete_roadmap(tok, rid) ==
    LET r == [Request("force_delete_roadmap", tok, EmptyBody) EXCEPT !.rid = rid]
        v == admin_required(tok)
        c == BindAdminCall("force_delete_roadmap", [roadmap_id |-> rid])
        roadmap_id == c.args.roadmap_id
        deleted_count == Cardinality({i \in 1..Len(roadmaps) : roadmaps[i]._id = ObjectId(roadmap_id)})
    IN
    IF v # Pass THEN Fail(r, v, NoCall)
    ELSE IF ~db THEN Fail(r, Response(503, "Database connection not available"), c)
    ELSE IF ~IsObjectIdText(roadmap_id)
    THEN Fail(r, Response(500, "Failed to force delete roadmap: InvalidId"), c)
    ELSE IF deleted_count = 0 THEN Fail(r, Response(404, "Roadmap not found"), c)
    ELSE
        /\ roadmaps' = SelectSeq(roadmaps, LAMBDA d : d._id # ObjectId(roadmap_id))
        /\ Reply(r, Response(200, "Roadmap force deleted successfully by admin"), c)
        /\ UNCHANGED <<db, users, issued, token_blacklist, now, oids>>

(* The role of a stored user is changed by an administrative operation on  *)
(* the store that is outside the routes of app.py, between two requests.   *)
ChangeRole(i, role) ==
    /\ users[i].role # role
    /\ users' = [users EXCEPT ![i].role = role]
    /\ UNCHANGED <<db, roadmaps, issued, token_blacklist, now, oids, req, resp, call, threads>>

(* The clock the tokens are checked against moves on between two requests; *)
(* the instants that matter are the last second before a signed token      *)
(* expires and the second it expires.                                      *)
Deadlines == UNION {{issued[j].exp - 1, issued[j].exp} : j \in 1..Len(issued)}

Tick(t) ==
    /\ t > now
    /\ now' = t
    /\ UNCHANGED <<db, users, roadmaps, issued, token_blacklist, oids, req, resp, call, threads>>

----------------------------------------------------------------------------
(* The service from its construction: the authentication routes *)

Init ==
    /\ db \in BOOLEAN
    /\ users = <<>>
    /\ roadmaps = <<>>
    /\ issued = <<>>
    /\ token_blacklist = {}
    /\ now = 0
    /\ oids = 0
    /\ req = Request("none", 0, EmptyBody)
    /\ resp = Response(0, "")
    /\ call = NoCall
    /\ threads = NoThreads

Idle == req.op = "none"

(* the response has left the service: it waits for the next request *)
ResponseSent ==
    /\ ~Idle
    /\ Reply(Request("none", 0, EmptyBody), Response(0, ""), NoCall)
    /\ Frame

RoadmapNode(k) == [id |-> k, present |-> {"id", "title", "description", "position_x", "position_y"}]

RoadmapData(nodes, is_public, created_by) ==
    [present |-> {"title", "description", "category", "difficulty_level", "nodes"},
     nodes |-> nodes, is_public |-> is_public, created_by |-> created_by]

TwoNodes == <<RoadmapNode(1), RoadmapNode(2)>>

RoadmapBodies ==
    {RoadmapData(TwoNodes, "absent", NoStr),
     RoadmapData(TwoNodes, "true", NoStr),
     RoadmapData(TwoNodes, "false", str(Oid(1))),
     NoRoadmapData,
     [RoadmapData(TwoNodes, "absent", NoStr) EXCEPT !.present = @ \ {"category"}],
     RoadmapData(<<>>, "absent", NoStr),
     RoadmapData(<<RoadmapNode(1), [id |-> 2, present |-> {"id", "title"}]>>, "absent", NoStr)}

UpdateBodies ==
    << <<>>, [is_public |-> TRUE], [created_by |-> str(Oid(1))] >>

(* path segments: the text of an ObjectId the store has generated, or not *)
PathIds == {str(roadmaps[i]._id) : i \in 1..Len(roadmaps)} \cup {str(Oid(1)), BadIdText}

NodeIds == {NodeText(1), NodeText(2), NodeText(3)}

Signup == Idle /\ \E body \in SignupBodies : signup(body)
Login == Idle /\ \E body \in LoginBodies : login(body)
Logout == Idle /\ \E tok \in Presented : logout(tok)
GetProfile == Idle /\ \E tok \in Presented : get_profile(tok)
RefreshToken == Idle /\ \E tok \in Presented : refresh_token(tok)
GetAllUsers == Idle /\ \E tok \in Presented : get_all_users(tok)
GetRoadmaps == Idle /\ \E tok \in Presented : get_roadmaps(tok)
CreateRoadmap == Idle /\ \E tok \in Presented, data \in RoadmapBodies : create_roadmap(tok, data)
GetRoadmap == Idle /\ \E tok \in Presented, rid \in PathIds : get_roadmap(tok, rid)
UpdateRoadmap ==
    Idle /\ \E tok \in Presented, rid \in PathIds, k \in 1..Len(UpdateBodies) :
                update_roadmap(tok, rid, UpdateBodies[k])
DeleteRoadmap == Idle /\ \E tok \in Presented, rid \in PathIds : delete_roadmap(tok, rid)
ToggleNode ==
    Idle /\ \E tok \in Presented, rid \in PathIds, nid \in NodeIds : toggle_node_completion(tok, rid, nid)
GetProgress == Idle /\ \E tok \in Presented, rid \in PathIds : get_roadmap_progress(tok, rid)
GetAllRoadmapsAdmin == Idle /\ \E tok \in Presented : get_all_roadmaps_admin(tok)
ForceDeleteRoadmap == Idle /\ \E tok \in Presented, rid \in PathIds : force_delete_roadmap(tok, rid)
TimePasses == Idle /\ \E t \in Deadlines : Tick(t)
RoleChanged == Idle /\ \E i \in 1..Len(users), role \in {"user", "admin"} : ChangeRole(i, role)

Next ==
    \/ Signup
    \/ Login
    \/ Logout
    \/ RefreshToken
    \/ GetProfile
    \/ GetAllUsers
    \/ RoleChanged
    \/ ResponseSent

Spec == Init /\ [][Next]_vars

----------------------------------------------------------------------------
(* The protected routes, in a service where three users have signed up:    *)
(* Ali and Bob with the default role, Cat as admin; each holds the token   *)
(* pair signup returned.                                                   *)

Cat == <<"c", "a", "t">>
MailC == <<"c", "@", "x", ".", "y">>

InitRoutes ==
    /\ db \in BOOLEAN
    /\ users = << UserDoc(1, Ali, MailA, hash_password(GoodPassword, 1), "user"),
                  UserDoc(2, Bob, MailB, hash_password(GoodPassword, 2), "user"),
                  UserDoc(3, Cat, MailC, hash_password(GoodPassword, 3), "admin") >>
    /\ roadmaps = <<>>
    /\ issued = TokenPair(Oid(1), "user", 0, 0) \o TokenPair(Oid(2), "user", 2, 0)
                    \o TokenPair(Oid(3), "admin", 4, 0)
    /\ token_blacklist = {}
    /\ now = 0
    /\ oids = 3
    /\ req = Request("none", 0, EmptyBody)
    /\ resp = Response(0, "")
    /\ call = NoCall
    /\ threads = NoThreads

NextRoutes ==
    \/ Logout
    \/ GetProfile
    \/ GetAllUsers
    \/ GetRoadmaps
    \/ CreateRoadmap
    \/ GetRoadmap
    \/ UpdateRoadmap
    \/ DeleteRoadmap
    \/ ToggleNode
    \/ GetProgress
    \/ GetAllRoadmapsAdmin
    \/ ForceDeleteRoadmap
    \/ RoleChanged
    \/ ResponseSent

SpecRoutes == InitRoutes /\ [][NextRoutes]_vars

----------------------------------------------------------------------------
(* The service with a clock: Ali has signed up at time 0 and holds the     *)
(* token pair signup returned; further tokens are signed by signup, login  *)
(* and refresh at later instants.                                          *)

InitClock ==
    /\ db = TRUE
    /\ users = << UserDoc(1, Ali, MailA, hash_password(GoodPassword, 1), "user") >>
    /\ roadmaps = <<>>
    /\ issued = TokenPair(Oid(1), "user", 0, 0)
    /\ token_blacklist = {}
    /\ now = 0
    /\ oids = 1
    /\ req = Request("none", 0, EmptyBody)
    /\ resp = Response(0, "")
    /\ call = NoCall
    /\ threads = NoThreads

NextClock ==
    \/ Signup
    \/ Login
    \/ Logout
    \/ RefreshToken
    \/ GetProfile
    \/ GetAllUsers
    \/ TimePasses
    \/ ResponseSent

SpecClock == InitClock /\ [][NextClock]_vars

----------------------------------------------------------------------------
(* The threaded server: requests are served by threads whose steps         *)
(* interleave between one access to shared state (the store, the           *)
(* blacklist) and the next.  req, resp and call are those of the request   *)
(* answered last.                                                          *)

(* signup: the validations and find_one *)
signup_checked(t, body) ==
    LET r == Request("signup", 0, body)
        c == Entered("signup", NoArgs)
    IN
    /\ threads[t].pc = "idle"
    /\ IF signup_rejection(body) # Pass
       THEN Answer(r, signup_rejection(body), c) /\ UNCHANGED threads
       ELSE /\ threads' = [threads EXCEPT ![t] = [IdleThread EXCEPT !.pc = "insert", !.body = body]]
            /\ UNCHANGED <<req, resp, call>>
    /\ Frame

(* signup: insert_one and the response *)
signup_inserted(t) ==
    LET body == threads[t].body
    IN
    /\ threads[t].pc = "insert"
    /\ signup_insert(Request("signup", 0, body), Entered("signup", NoArgs), body)
    /\ threads' = [threads EXCEPT ![t] = IdleThread]

(* logout: the decorator *)
logout_entered(t, tok) ==
    LET r == Request("logout", tok, EmptyBody)
        v == jwt_required(tok, FALSE)
    IN
    /\ threads[t].pc = "idle"
    /\ IF v # Pass
       THEN Answer(r, v, NoCall) /\ UNCHANGED threads
       ELSE /\ threads' = [threads EXCEPT ![t] = [IdleThread EXCEPT !.pc = "revoke", !.tok = tok]]
            /\ UNCHANGED <<req, resp, call>>
    /\ Frame

(* logout: token_blacklist.add(jti), one step of the interpreter *)
logout_revoked(t) ==
    LET tok == threads[t].tok
    IN
    /\ threads[t].pc = "revoke"
    /\ token_blacklist' = revoke_token(issued[tok].jti)
    /\ Answer(Request("logout", tok, EmptyBody), Response(200, "Successfully logged out"),
              Entered("logout", NoArgs))
    /\ threads' = [threads EXCEPT ![t] = IdleThread]
    /\ UNCHANGED <<db, users, roadmaps, issued, now, oids>>

ThreadBodies ==
    {SignupBody(u, e, GoodPassword, NoRole) : u \in {Ali, Bob}, e \in {MailA, MailB}}
    \cup {SignupBody(AliPadded, MailAUpper, GoodPassword, NoRole),
          SignupBody(Ali, MailA, WeakPassword, NoRole)}

SignupChecked == \E t \in 1..MaxThreads, body \in ThreadBodies : signup_checked(t, body)
SignupInserted == \E t \in 1..MaxThreads : signup_inserted(t)
LogoutEntered == \E t \in 1..MaxThreads, tok \in Presented : logout_entered(t, tok)
LogoutRevoked == \E t \in 1..MaxThreads : logout_revoked(t)
ProfileRead == \E tok \in Presented : get_profile(tok)

InitThreads ==
    /\ db = TRUE
    /\ users = <<>>
    /\ roadmaps = <<>>
    /\ issued = <<>>
    /\ token_blacklist = {}
    /\ now = 0
    /\ oids = 0
    /\ req = Request("none", 0, EmptyBody)
    /\ resp = Response(0, "")
    /\ call = NoCall
    /\ threads = NoThreads

NextThreads ==
    \/ SignupChecked
    \/ SignupInserted
    \/ LogoutEntered
    \/ LogoutRevoked
    \/ ProfileRead

SpecThreads == InitThreads /\ [][NextThreads]_vars

----------------------------------------------------------------------------
(* Toggle requests in the threaded server.  A stored roadmap of Ali's,     *)
(* private, with two nodes not yet completed; every thread serves one      *)
(* toggle request and keeps what it was asked.                             *)

(* toggle_node_completion up to and including the loop over the nodes it   *)
(* has read with find_one                                                  *)
toggle_entered(t, tok, rid, nid) ==
    LET r == [Request("toggle_node_completion", tok, EmptyBody) EXCEPT !.rid = rid, !.nid = nid]
        v == token_required(tok)
        asked == [IdleThread EXCEPT !.pc = "done", !.tok = tok, !.rid = rid, !.nid = nid]
        Done(rsp, c) ==
            /\ Answer(r, rsp, c)
            /\ threads' = [threads EXCEPT ![t] = asked]
    IN
    /\ threads[t].pc = "idle"
    /\ Frame
    /\ IF v # Pass THEN Done(v, NoCall)
       ELSE
       LET c == BindCall("toggle_node_completion", <<"roadmap_id", "node_id", "current_user_id">>,
                         issued[tok].sub, [roadmap_id |-> rid, node_id |-> nid])
           roadmap_id == c.args.roadmap_id
           node_id == c.args.node_id
           current_user_id == c.args.current_user_id
           claims == issued[tok]
           roadmap == find_one(SelectSeq(roadmaps, LAMBDA d : d._id = ObjectId(roadmap_id)))
           node_found == \E i \in 1..Len(roadmap.nodes) : NodeText(roadmap.nodes[i].id) = node_id
       IN
       IF c = TypeError THEN Done(InternalError, c)
       ELSE IF ~db THEN Done(Response(503, "Database connection not available"), c)
       ELSE IF ~IsObjectIdText(roadmap_id)
       THEN Done(Response(500, "Failed to toggle node completion: InvalidId"), c)
       ELSE IF roadmap = NoDoc THEN Done(Response(404, "Roadmap not found"), c)
       ELSE IF roadmap.is_public # TRUE /\ str(roadmap.created_by) # current_user_id
               /\ claims.role # "admin"
       THEN Done(Response(403, "Access denied"), c)
       ELSE IF ~node_found THEN Done(Response(404, "Node not found"), c)
       ELSE /\ threads' = [threads EXCEPT ![t] =
                              [asked EXCEPT !.pc = "update",
                                            !.nodes = Toggled(roadmap.nodes, node_id)]]
            /\ UNCHANGED <<req, resp, call>>

(* toggle_node_completion from update_one on: $set of the whole nodes      *)
(* array the thread holds.  No thread gets here: see BindCall.             *)
toggle_updated(t) ==
    LET th == threads[t]
        r == [Request("toggle_node_completion", th.tok, EmptyBody) EXCEPT !.rid = th.rid, !.nid = th.nid]
        c == Entered("toggle_node_completion",
                     [current_user_id |-> issued[th.tok].sub, roadmap_id |-> th.rid, node_id |-> th.nid])
        updated_node == find_one(SelectSeq(th.nodes, LAMBDA n : NodeText(n.id) = th.nid))
    IN
    /\ th.pc = "update"
    /\ roadmaps' = [i \in 1..Len(roadmaps) |->
                       IF roadmaps[i]._id = ObjectId(th.rid)
                       THEN [roadmaps[i] EXCEPT !.nodes = th.nodes]
                       ELSE roadmaps[i]]
    /\ Answer(r, [Response(200, "Node completion status updated") EXCEPT
                    !.data = <<updated_node>>], c)
    /\ threads' = [threads EXCEPT ![t] = [th EXCEPT !.pc = "done", !.nodes = <<>>]]
    /\ UNCHANGED <<db, users, issued, token_blacklist, now, oids>>

(* the Authorization headers of the toggle requests: none, and the access  *)
(* tokens of Ali (the owner), Bob (another user) and Cat (an admin)        *)
ToggleTokens == {0, 1, 3, 5}

ToggleEntered ==
    \E t \in 1..MaxThreads, tok \in ToggleTokens, rid \in PathIds, nid \in NodeIds :
        toggle_entered(t, tok, rid, nid)

InitToggles ==
    /\ db \in BOOLEAN
    /\ users = << UserDoc(1, Ali, MailA, hash_password(GoodPassword, 1), "user"),
                  UserDoc(2, Bob, MailB, hash_password(GoodPassword, 2), "user"),
                  UserDoc(3, Cat, MailC, hash_password(GoodPassword, 3), "admin") >>
    /\ roadmaps = << [_id |-> Oid(4), created_by |-> Oid(1), is_public |-> FALSE,
                      nodes |-> << [id |-> 1, completed |-> FALSE],
                                   [id |-> 2, completed |-> FALSE] >>] >>
    /\ issued = TokenPair(Oid(1), "user", 0, 0) \o TokenPair(Oid(2), "user", 2, 0)
                    \o TokenPair(Oid(3), "admin", 4, 0)
    /\ token_blacklist = {}
    /\ now = 0
    /\ oids = 4
    /\ req = Request("none", 0, EmptyBody)
    /\ resp = Response(0, "")
    /\ call = NoCall
    /\ threads = NoThreads

NextToggles == ToggleEntered

SpecToggles == InitToggles /\ [][NextToggles]_vars

----------------------------------------------------------------------------
(* validate_password on its own: the passwords are a run of one character  *)
(* followed by a few free characters, one character of each class of the   *)
(* rules and one ("_") of none.                                            *)

PasswordAlphabet == {"A", "z", "7", "?", "_"}

Pad(f, k) == [i \in 1..k |-> f]

Passwords ==
    {Pad(f, k) \o t :
        f \in PasswordAlphabet, k \in 0..MaxPad,
        t \in UNION {[1..n -> PasswordAlphabet] : n \in 0..MaxTail}}

InitPassword ==
    /\ db = TRUE
    /\ users = <<>>
    /\ roadmaps = <<>>
    /\ issued = <<>>
    /\ token_blacklist = {}
    /\ now = 0
    /\ oids = 0
    /\ \E password \in Passwords :
          req = Request("validate_password", 0, [EmptyBody EXCEPT !.password = password])
    /\ resp = Response(0, "")
    /\ call = NoCall
    /\ threads = NoThreads

ValidatePassword ==
    /\ req.op = "validate_password"
    /\ call = NoCall
    /\ LET v == validate_password(req.body.password)
       IN Reply(req, [Response(0, v.msg) EXCEPT !.data = <<v.ok>>],
                Entered("validate_password", NoArgs))
    /\ Frame

SpecPassword == InitPassword /\ [][ValidatePassword]_vars

----------------------------------------------------------------------------
(* Properties *)

Authenticated(tok) ==
    /\ tok # 0
    /\ jwt_required(tok, FALSE) = Pass
    /\ ~is_token_revoked(issued[tok])

TokenRoutes ==
    {"get_roadmaps", "create_roadmap", "get_roadmap", "update_roadmap", "delete_roadmap",
     "toggle_node_completion", "get_roadmap_progress", "get_profile"}

AdminRoutes == {"get_all_roadmaps_admin", "force_delete_roadmap", "get_all_users"}

RoadmapAt(coll, rid) ==
    IF IsObjectIdText(rid)
    THEN find_one(SelectSeq(coll, LAMBDA d : d._id = ObjectId(rid)))
    ELSE NoDoc

(* C1: once a token's jti is revoked by logout, a refresh request carrying *)
(* that token is rejected with 401 and returns no new access token.        *)
C1_RevokedTokenCannotRefresh ==
    (req.op = "refresh_token" /\ req.tok # 0 /\ req.tok \in token_blacklist)
        => (resp.status = 401 /\ resp.access = 0)

(* C2: on every route wrapped by token_required or admin_required, a       *)
(* request whose unexpired token has its jti in the revocation registry is *)
(* answered 401 "Token has been revoked", the wrapped handler is not       *)
(* entered, and users and roadmaps are left as they were.                  *)
C2_RevokedTokenRejected ==
    [][(/\ req'.op \in TokenRoutes \cup AdminRoutes
        /\ req'.tok # 0
        /\ issued[req'.tok].exp > now
        /\ issued[req'.tok].jti \in token_blacklist)
       => (/\ resp' = Response(401, "Token has been revoked")
           /\ call' = NoCall
           /\ users' = users
           /\ roadmaps' = roadmaps)]_vars

C2_RevokedTokenPresented ==
    /\ req.op \in TokenRoutes \cup AdminRoutes
    /\ req.tok # 0
    /\ issued[req.tok].jti \in token_blacklist
    /\ resp = Response(401, "Token has been revoked")

(* C3: on every route wrapped by token_required, an authenticated request  *)
(* enters the handler with current_user_id equal to the subject of the     *)
(* token and with roadmap_id and node_id equal to the path parameters.     *)
C3_PrincipalInjected ==
    (req.op \in TokenRoutes /\ Authenticated(req.tok))
        => (/\ call.handler = req.op
            /\ call.args.current_user_id = issued[req.tok].sub
            /\ call.args.roadmap_id = req.rid
            /\ call.args.node_id = req.nid)

(* C4: a GET on an existing private roadmap answers 200 with the roadmap   *)
(* to its creator and to any admin principal, and 404 to any other         *)
(* authenticated principal.                                                *)
C4_PrivateRoadmapRead ==
    LET roadmap == RoadmapAt(roadmaps, req.rid)
        claims == issued[req.tok]
    IN (/\ req.op = "get_roadmap"
        /\ Authenticated(req.tok)
        /\ db
        /\ roadmap # NoDoc
        /\ roadmap.is_public = FALSE)
       => IF str(roadmap.created_by) = claims.sub \/ claims.role = "admin"
          THEN resp.status = 200 /\ resp.data = <<Serialise(roadmap)>>
          ELSE resp.status = 404

(* C5: a PUT or DELETE on an existing private roadmap by an authenticated  *)
(* principal that is neither its creator nor an admin answers 403 and      *)
(* leaves the stored roadmaps unchanged; by the creator or an admin it     *)
(* answers 200 and the roadmap is updated, respectively deleted.           *)
C5_WriteNeedsOwnerOrAdmin ==
    [][LET roadmap == RoadmapAt(roadmaps, req'.rid)
           claims == issued[req'.tok]
       IN (/\ req'.op \in {"update_roadmap", "delete_roadmap"}
           /\ Authenticated(req'.tok)
           /\ db
           /\ req'.op = "update_roadmap" => DOMAIN req'.body # {}
           /\ roadmap # NoDoc
           /\ roadmap.is_public = FALSE)
          => IF str(roadmap.created_by) = claims.sub \/ claims.role = "admin"
             THEN /\ resp'.status = 200
                  /\ IF req'.op = "delete_roadmap"
                     THEN RoadmapAt(roadmaps', req'.rid) = NoDoc
                     ELSE RoadmapAt(roadmaps', req'.rid) = SetFields(roadmap, req'.body)
             ELSE resp'.status = 403 /\ roadmaps' = roadmaps]_vars

(* C6: a refresh that succeeds returns a newly signed access token whose   *)
(* subject is that of the presented token and whose role is the role the   *)
(* user has in the store now, also when the presented token's role claim   *)
(* differs from it.                                                        *)
C6_RefreshCarriesCurrentRole ==
    (req.op = "refresh_token" /\ resp.status = 200)
        => LET presented == issued[req.tok]
               new == issued[resp.access]
               user == find_one(SelectSeq(users, LAMBDA u : str(u._id) = presented.sub))
           IN /\ resp.access = Len(issued)
              /\ resp.access # req.tok
              /\ new.type = "access"
              /\ new.sub = presented.sub
              /\ user # NoDoc
              /\ new.role = user.role

C6_StaleRoleRefreshed ==
    /\ req.op = "refresh_token"
    /\ resp.status = 200
    /\ issued[resp.access].role # issued[req.tok].role

(* C7: refresh answers 200 only to a request that presents a refresh-type  *)
(* token; with an access-type token or with none it returns no new access  *)
(* token.                                                                  *)
C7_RefreshNeedsRefreshToken ==
    (req.op = "refresh_token" /\ resp.status = 200)
        => (req.tok # 0 /\ issued[req.tok].type = "refresh")

(* C8: on the admin-only routes an authenticated request enters the        *)
(* handler iff the role claim of its token is admin; otherwise it is       *)
(* answered 403, whoever created the target roadmap, nothing is read and   *)
(* no roadmap is deleted.                                                  *)
C8_AdminRoutesNeedAdminClaim ==
    [][(req'.op \in AdminRoutes /\ Authenticated(req'.tok))
       => /\ (call'.handler = req'.op) <=> (issued[req'.tok].role = "admin")
          /\ issued[req'.tok].role # "admin"
                => /\ resp' = Response(403, "Admin access required")
                   /\ call' = NoCall
                   /\ roadmaps' = roadmaps]_vars

C8_OwnerWithoutAdminClaimDenied ==
    LET roadmap == RoadmapAt(roadmaps, req.rid)
    IN /\ req.op = "force_delete_roadmap"
       /\ Authenticated(req.tok)
       /\ roadmap # NoDoc
       /\ str(roadmap.created_by) = issued[req.tok].sub
       /\ resp.status = 403

(* C9: a login with an email no user has and a login with a stored email   *)
(* and a wrong password get one and the same response, 401 "Invalid email  *)
(* or password" carrying no token, and neither signs a token.              *)
LoginCase ==
    IF req.op # "login" \/ ~db \/ req.body.email = Absent \/ req.body.password = Absent
    THEN "none"
    ELSE LET user == find_one(SelectSeq(users, LAMBDA u : u.email = lower(strip(req.body.email))))
         IN IF user = NoDoc THEN "unknown email"
            ELSE IF user.password.pw # req.body.password THEN "wrong password"
            ELSE "accepted"

C9_LoginFailuresIndistinguishable ==
    [][LoginCase' \in {"unknown email", "wrong password"}
       => (resp' = Response(401, "Invalid email or password") /\ issued' = issued)]_vars

C9_WrongPasswordRejected ==
    /\ LoginCase = "wrong password"
    /\ resp.status = 401

(* C10: a signup that passes validation is answered 409 "Username already  *)
(* exists" when a stored user has the requested username, whatever the     *)
(* requested email, and 409 "Email already exists" when no stored user has *)
(* the username and a stored user has the requested email.                 *)
ValidSignup(body) ==
    /\ body.username # Absent /\ body.email # Absent /\ body.password # Absent
    /\ Len(strip(body.username)) >= 3
    /\ Len(lower(strip(body.email))) >= 5
    /\ Contains(lower(strip(body.email)), {"@"})
    /\ validate_password(body.password).ok

C10_DuplicateUsernameFirst ==
    [][(req'.op = "signup" /\ db /\ ValidSignup(req'.body))
       => LET username == strip(req'.body.username)
              email == lower(strip(req'.body.email))
              username_taken == \E i \in 1..Len(users) : users[i].username = username
              email_taken == \E i \in 1..Len(users) : users[i].email = email
          IN /\ username_taken => resp' = Response(409, "Username already exists")
             /\ (~username_taken /\ email_taken) => resp' = Response(409, "Email already exists")]_vars

(* C11: validate_password accepts a password iff it has at least 8         *)
(* characters, an uppercase letter, a lowercase letter, a digit and a       *)
(* symbol of the punctuation set; when it rejects, the message is that of   *)
(* the first rule that fails, in the order length, uppercase, lowercase,    *)
(* digit, symbol.                                                           *)
PasswordRules(p) ==
    << Len(p) >= 8,
       \E i \in 1..Len(p) : p[i] \in UpperCase,
       \E i \in 1..Len(p) : p[i] \in LowerCaseChars,
       \E i \in 1..Len(p) : p[i] \in Digits,
       \E i \in 1..Len(p) : p[i] \in Specials >>

RuleMessages ==
    << "Password must be at least 8 characters long",
       "Password must contain at least one uppercase letter",
       "Password must contain at least one lowercase letter",
       "Password must contain at least one digit",
       "Password must contain at least one special character" >>

C11_PasswordRulesInOrder ==
    call.handler = "validate_password"
        => LET rules == PasswordRules(req.body.password)
               failing == {i \in 1..5 : ~rules[i]}
           IN /\ resp.data[1] <=> failing = {}
              /\ failing # {} => \A i \in failing :
                    (\A j \in failing : i <= j) => resp.msg = RuleMessages[i]

C11_SecondOfTwoFailingRulesNotNamed ==
    /\ call.handler = "validate_password"
    /\ PasswordRules(req.body.password) = <<TRUE, TRUE, FALSE, FALSE, TRUE>>
    /\ resp.msg = RuleMessages[3]

C11_EightCharactersAccepted ==
    /\ call.handler = "validate_password"
    /\ Len(req.body.password) = 8
    /\ resp.data = <<TRUE>>

(* C12: a token signed by signup, login or refresh expires at its issue    *)
(* time plus the lifetime of its type.  A request presenting it at or      *)
(* after that instant is answered 401 "Token has expired", enters no       *)
(* handler and changes nothing.  A request presenting it strictly before   *)
(* is not turned down as expired and is served for the subject, role and   *)
(* jti the token was signed with: the profile route gets that subject,     *)
(* refresh signs for that subject, logout revokes that jti and the admin   *)
(* route tests that role.                                                  *)
C12_ExpiredTokenNeverServed ==
    [][(req'.op # "none" /\ req'.tok # 0)
       => LET t == issued[req'.tok]
          IN /\ t.jti = req'.tok
             /\ t.exp = t.iat + (IF t.type = "access" THEN 3600 ELSE 604800)
             /\ t.exp <= now
                   => /\ resp' = Response(401, "Token has expired")
                      /\ call' = NoCall
                      /\ <<users, issued, token_blacklist>>' = <<users, issued, token_blacklist>>
             /\ t.exp > now
                   => /\ resp' # Response(401, "Token has expired")
                      /\ call'.handler = "get_profile" => call'.args.current_user_id = t.sub
                      /\ call'.handler = "refresh_token" /\ resp'.status = 200
                            => issued'[resp'.access].sub = t.sub
                      /\ call'.handler = "logout" => token_blacklist' = token_blacklist \cup {t.jti}
                      /\ call'.handler = "get_all_users" => t.role = "admin"]_vars

C12_PresentedAtExpiry ==
    /\ req.op # "none"
    /\ req.tok # 0
    /\ issued[req.tok].iat > 0
    /\ issued[req.tok].exp = now
    /\ resp = Response(401, "Token has expired")

C12_ServedInLastSecond ==
    /\ req.op = "get_profile"
    /\ req.tok # 0
    /\ issued[req.tok].exp = now + 1
    /\ resp.status = 200

(* C13: in every state, also those reached when signup requests            *)
(* interleave, no two stored users have the same username and no two have  *)
(* the same lower-cased email.                                             *)
C13_UsernamesAndEmailsUnique ==
    \A i, j \in 1..Len(users) :
        i # j => /\ users[i].username # users[j].username
                 /\ lower(users[i].email) # lower(users[j].email)

(* C14: in every state the role of every stored user is user or admin, a   *)
(* signup that gives no role stores the role user, and the role claim of   *)
(* every signed token is user or admin.                                    *)
C14_RolesAreUserOrAdmin ==
    /\ \A i \in 1..Len(users) : users[i].role \in {"user", "admin"}
    /\ \A j \in 1..Len(issued) : issued[j].role \in {"user", "admin"}
    /\ (req.op = "signup" /\ resp.status = 201 /\ req.body.role = NoRole)
          => (resp.data[1].role = "user" /\ users[Len(users)].role = "user")

(* C15: no response carries a password hash: the user records returned by  *)
(* signup, login, profile and the admin user listing have no password      *)
(* field, and every other response of the authentication routes, error     *)
(* responses included, carries no user record at all.                      *)
C15_NoPasswordHashInResponse ==
    req.op \in {"signup", "login", "logout", "get_profile", "refresh_token", "get_all_users"}
        => /\ \A i \in 1..Len(resp.data) : "password" \notin DOMAIN resp.data[i]
           /\ resp.status \notin {200, 201} => resp.data = <<>>

C15_StoredUsersListed ==
    /\ req.op = "get_all_users"
    /\ resp.status = 200
    /\ Len(resp.data) = Len(users)
    /\ Len(users) > 1
    /\ \A i \in 1..Len(users) : "password" \in DOMAIN users[i]

(* C16: a fault raised while a request is served is answered 500 with the  *)
(* generic body "Internal server error", which carries nothing of the      *)
(* exception.                                                              *)
C16_FaultsReportedGenerically ==
    resp.status = 500 => resp = InternalError

(* C17: when logout requests interleave with one another and with          *)
(* requests that test revocation, no revocation is lost: no step removes a *)
(* jti from the registry, a logout that completes leaves its jti in the    *)
(* registry whatever the other threads did in between, and a request that  *)
(* presents a token whose jti is in the registry is told it is revoked.    *)
C17_NoRevocationLost ==
    [][/\ token_blacklist \subseteq token_blacklist'
       /\ \A t \in 1..MaxThreads :
             (threads[t].pc = "revoke" /\ threads'[t].pc # "revoke")
                => issued[threads[t].tok].jti \in token_blacklist'
       /\ (req'.op = "get_profile" /\ req'.tok # 0
              /\ issued[req'.tok].jti \in token_blacklist')
                => resp' = Response(401, "Token has been revoked")
       /\ \A j \in token_blacklist' : is_token_revoked([jti |-> j])']_vars

C17_RevokesInFlight ==
    /\ \E t1, t2 \in 1..MaxThreads :
          /\ t1 # t2
          /\ threads[t1].pc = "revoke"
          /\ threads[t2].pc = "revoke"
          /\ threads[t1].tok # threads[t2].tok
    /\ token_blacklist # {}

(* C18: every step leaves the revocation registry as it was, or is a       *)
(* logout answered 200 that adds the jti of the presented token and        *)
(* nothing else.  So no step removes an entry, logout does not revoke the  *)
(* other token of the pair, a logout repeated with the same token leaves   *)
(* the registry as it was, and signup, login and refresh revoke nothing.   *)
C18_OnlyLogoutRevokes ==
    [][/\ \/ token_blacklist' = token_blacklist
          \/ /\ req'.op = "logout"
             /\ resp'.status = 200
             /\ req'.tok # 0
             /\ token_blacklist' = token_blacklist \cup {issued[req'.tok].jti}
       /\ (req'.op = "logout" /\ resp'.status = 200)
             => /\ token_blacklist' = token_blacklist \cup {issued[req'.tok].jti}
                /\ issued' = issued]_vars

C18_OtherTokenOfPairStillValid ==
    /\ req.op = "logout"
    /\ resp.status = 200
    /\ \E j \in 1..Len(issued) :
          /\ issued[j].sub = issued[req.tok].sub
          /\ issued[j].iat = issued[req.tok].iat
          /\ issued[j].type # issued[req.tok].type
          /\ j \notin token_blacklist

(* C19: toggle-node and read-progress on an existing roadmap are allowed   *)
(* iff the roadmap is public, or the principal created it, or the role     *)
(* claim is admin.  A denied request is answered 403 and changes no        *)
(* stored roadmap; an allowed one is served: progress answers 200, toggle  *)
(* answers 200 and negates the node, or 404 when the roadmap has no such   *)
(* node.                                                                   *)
C19_ToggleAndProgressAccess ==
    [][LET roadmap == RoadmapAt(roadmaps, req'.rid)
           claims == issued[req'.tok]
           allowed == \/ roadmap.is_public = TRUE
                      \/ str(roadmap.created_by) = claims.sub
                      \/ claims.role = "admin"
           has_node == \E i \in 1..Len(roadmap.nodes) : NodeText(roadmap.nodes[i].id) = req'.nid
       IN (/\ req'.op \in {"toggle_node_completion", "get_roadmap_progress"}
           /\ Authenticated(req'.tok)
           /\ db
           /\ roadmap # NoDoc)
          => IF ~allowed
             THEN resp'.status = 403 /\ roadmaps' = roadmaps
             ELSE IF req'.op = "get_roadmap_progress"
             THEN resp'.status = 200 /\ roadmaps' = roadmaps
             ELSE IF has_node
             THEN /\ resp'.status = 200
                  /\ RoadmapAt(roadmaps', req'.rid).nodes = Toggled(roadmap.nodes, req'.nid)
             ELSE resp'.status = 404 /\ roadmaps' = roadmaps]_vars

(* C20: the listing answered to an authenticated principal holds exactly   *)
(* the stored roadmaps that are public or created by the principal when    *)
(* the role claim is not admin, and exactly all stored roadmaps when it is *)
(* admin; for a non-admin it never holds another user's private roadmap.   *)
C20_ListingShowsVisibleRoadmaps ==
    (req.op = "get_roadmaps" /\ Authenticated(req.tok) /\ db)
        => LET claims == issued[req.tok]
               visible == {k \in 1..Len(roadmaps) :
                              \/ claims.role = "admin"
                              \/ roadmaps[k].is_public = TRUE
                              \/ str(roadmaps[k].created_by) = claims.sub}
           IN /\ resp.status = 200
              /\ Len(resp.data) = Cardinality(visible)
              /\ {resp.data[i] : i \in 1..Len(resp.data)} = {Serialise(roadmaps[k]) : k \in visible}
              /\ claims.role # "admin"
                    => \A i \in 1..Len(resp.data) :
                          resp.data[i].is_public = TRUE \/ resp.data[i].created_by = claims.sub

C20_PrivateRoadmapOfAnotherHidden ==
    /\ req.op = "get_roadmaps"
    /\ resp.status = 200
    /\ resp.data = <<>>
    /\ \E k \in 1..Len(roadmaps) :
          roadmaps[k].is_public = FALSE /\ str(roadmaps[k].created_by) # issued[req.tok].sub

AuthorizedToggle(t) ==
    LET th == threads[t]
        roadmap == RoadmapAt(roadmaps, th.rid)
    IN /\ th.pc = "done"
       /\ Authenticated(th.tok)
       /\ roadmap # NoDoc
       /\ \/ roadmap.is_public = TRUE
          \/ str(roadmap.created_by) = issued[th.tok].sub
          \/ issued[th.tok].role = "admin"
       /\ \E i \in 1..Len(roadmap.nodes) : NodeText(roadmap.nodes[i].id) = th.nid

C22_TogglesNotLost ==
    (db /\ \A t \in 1..MaxThreads : AuthorizedToggle(t))
        => \A k \in 1..Len(roadmaps) : \A i \in 1..Len(roadmaps[k].nodes) :
              LET toggles == {t \in 1..MaxThreads :
                                /\ threads[t].rid = str(roadmaps[k]._id)
                                /\ threads[t].nid = NodeText(roadmaps[k].nodes[i].id)}
              IN roadmaps[k].nodes[i].completed = (Cardinality(toggles) % 2 = 1)

(* C23: a toggle of node n in roadmap r answered 200 negates the completed  *)
(* flag of the node with id n and leaves every other node of r, the order  *)
(* of the nodes, r's created_by and is_public, and every other roadmap     *)
(* unchanged; a toggle by an authenticated, allowed principal that names a *)
(* node id not present in r is answered 404 and changes no stored roadmap. *)
C23_ToggleNegatesOneNode ==
    [][LET roadmap == RoadmapAt(roadmaps, req'.rid)
           after == RoadmapAt(roadmaps', req'.rid)
           claims == issued[req'.tok]
           allowed == \/ roadmap.is_public = TRUE
                      \/ str(roadmap.created_by) = claims.sub
                      \/ claims.role = "admin"
           has_node == \E i \in 1..Len(roadmap.nodes) : NodeText(roadmap.nodes[i].id) = req'.nid
       IN req'.op = "toggle_node_completion"
          => /\ resp'.status = 200
                => /\ roadmap # NoDoc /\ after # NoDoc
                   /\ Len(roadmaps') = Len(roadmaps)
                   /\ \A k \in 1..Len(roadmaps) :
                         roadmaps[k]._id # roadmap._id => roadmaps'[k] = roadmaps[k]
                   /\ after.created_by = roadmap.created_by
                   /\ after.is_public = roadmap.is_public
                   /\ Len(after.nodes) = Len(roadmap.nodes)
                   /\ \A i \in 1..Len(roadmap.nodes) :
                         IF NodeText(roadmap.nodes[i].id) = req'.nid
                         THEN after.nodes[i] =
                                 [roadmap.nodes[i] EXCEPT !.completed = ~roadmap.nodes[i].completed]
                         ELSE after.nodes[i] = roadmap.nodes[i]
             /\ (Authenticated(req'.tok) /\ db /\ roadmap # NoDoc /\ allowed /\ ~has_node)
                => (resp'.status = 404 /\ roadmaps' = roadmaps)]_vars

(* C24: a signup answered 400, 409 or 503 inserts no user and issues no    *)
(* token; with the store available, a body that fails a validation         *)
(* (missing field, username shorter than 3, invalid email, weak password)  *)
(* is answered 400 whether or not its username or email is taken, so 409   *)
(* and the insert happen only for valid input.                             *)
C24_SignupErrorsInsertNothing ==
    [][req'.op = "signup"
       => /\ resp'.status \in {400, 409, 503}
             => (users' = users /\ issued' = issued /\ oids' = oids)
          /\ (db /\ ~ValidSignup(req'.body)) => resp'.status = 400
          /\ resp'.status = 409 => ValidSignup(req'.body)
          /\ (users' # users \/ issued' # issued)
                => (ValidSignup(req'.body) /\ resp'.status = 201)]_vars

(* a signup with a weak password and a username and email already stored   *)
(* is answered 400                                                         *)
C24_WeakPasswordOfTakenUsername ==
    /\ req.op = "signup"
    /\ req.body.username # Absent /\ req.body.email # Absent /\ req.body.password # Absent
    /\ ~validate_password(req.body.password).ok
    /\ \E i \in 1..Len(users) : /\ users[i].username = strip(req.body.username)
                                /\ users[i].email = lower(strip(req.body.email))
    /\ resp.status = 400

====
